---- MODULE Spec2Model ----
(***************************************************************************)
(* The snake game of src/src/main.rs as a state machine.                   *)
(*                                                                         *)
(* The program is a set of Bevy systems that the Update stage runs once    *)
(* per frame (main, lines 353-401).  One action of this module is one      *)
(* system run; the scheduler is the variable ran (the systems that have    *)
(* run in the current frame) with the ordering constraints of main:        *)
(*   snake_movement_input before snake_movement,                           *)
(*   snake_movement before snake_eating before snake_growth,               *)
(*   snake_movement before game_over,                                      *)
(*   food_spawner unconstrained.                                           *)
(* snake_movement, snake_eating and snake_growth run only in a frame in    *)
(* which the FixedTimestep criterion fires (a tick).  Frames are taken to  *)
(* be shorter than the 0.150 s step, so a frame holds at most one tick.    *)
(*                                                                         *)
(* Commands (spawn, despawn) are deferred: a system queues them and the    *)
(* stage applies them after every system of the frame has run              *)
(* (ApplyBuffers).  An entity id is reserved at once, so SnakeSegments is  *)
(* updated immediately while the entity appears in queries only after the  *)
(* stage.  Entities are represented by their components: a segment by its  *)
(* Position, a food by its Position.                                       *)
(*                                                                         *)
(* An event queue keeps an event for the frame it is sent in and the next  *)
(* one; a reader's iter() marks every event sent so far as read.  Each     *)
(* queue has one reader, so it is modelled by the reader's unread counts   *)
(* <<sent in the previous frame, sent in this frame>>.                     *)
(***************************************************************************)
EXTENDS Integers, Sequences, FiniteSets, Bags, TLC

\* Bounds of the model (the program's arena is 32 x 18).
ARENA_WIDTH == 4
ARENA_HEIGHT == 4
\* A frame is begun only while the snake has at most MaxSegments segments: a
\* longer snake is reached and followed no further.
MaxSegments == 4
\* A frame is begun only while the world holds at most MaxFood foods: a world
\* with more is reached and followed no further.
MaxFood == 1
\* A frame is begun only while at most MaxStale segment entities exist outside
\* SnakeSegments.
MaxStale == 0
\* The largest number of consecutive frames without a tick.
MaxIdleFrames == 0

\* InputBuffer capacity (main.rs line 217).
BufferCapacity == 3
\* spawn_snake's layout (main.rs lines 106, 109).
StartX == 3
StartY == 3
StartTailY == 2

\* Option<T>: None, or Some(v); Unwrap(Some(v)) = v.
None == <<>>
Some(v) == <<v>>
Unwrap(o) == o[1]
\* No directional key was just pressed.
NoKey == "NoKey"

Direction == {"Left", "Up", "Right", "Down"}

\* A slip in the match: the vertical arms map a direction to itself.
opposite_Slip(d) ==
  CASE d = "Left" -> "Right"
    [] d = "Right" -> "Left"
    [] d = "Up" -> "Up"
    [] d = "Down" -> "Down"

\* Direction::opposite, lines 78-85.
opposite(d) ==
  CASE d = "Left" -> "Right"
    [] d = "Right" -> "Left"
    [] d = "Up" -> "Down"
    [] d = "Down" -> "Up"

Position(x, y) == [x |-> x, y |-> y]

\* The cells food is drawn from: (random * ARENA_WIDTH) as i32 is in 0..ARENA_WIDTH-1.
Cells == {Position(x, y) : x \in 0..(ARENA_WIDTH - 1), y \in 0..(ARENA_HEIGHT - 1)}

Range(s) == {s[i] : i \in 1..Len(s)}

VARIABLES
  segments,            \* SnakeSegments.0: the listed entities, each by its Position
  head,                \* the SnakeHead entity in the world: [pos, direction]
  unlisted,            \* SnakeSegment entities not in SnakeSegments: {[pos, state]}
  food,                \* the Food entities in the world: a bag of Positions
  inputs,              \* InputBuffer.inputs
  last_tail_position,  \* LastTailPosition.0
  game_over_events,    \* unread GameOverEvent of game_over: <<previous frame, this frame>>
  growth_events,       \* unread GrowthEvent of snake_growth
  food_events,         \* unread FoodEvent of food_spawner
  commands,            \* the deferred commands queued in this frame
  tick,                \* the FixedTimestep criterion fired in this frame
  ran,                 \* the systems that have run in this frame
  pc,                  \* "systems": the stage is running; "applied": its commands are applied
  idle,                \* consecutive frames without a tick
  new_position,        \* food_spawner's candidate while its loop runs, else None
  obs,                 \* what the systems of this frame did (history, read by no system)
  after_boundary       \* history: the resets and food spawns since the last tick that
                       \* left the arena, None when the last tick stayed inside

vars == <<segments, head, unlisted, food, inputs, last_tail_position,
          game_over_events, growth_events, food_events, commands, tick, ran,
          pc, idle, new_position, obs, after_boundary>>

----------------------------------------------------------------------------
\* Event queues

NoEvents == <<0, 0>>
Send(ev, n) == <<ev[1], ev[2] + n>>
Unread(ev) == ev[1] + ev[2]
\* Events::update at the start of a frame: the older buffer is dropped.
UpdateEvents(ev) == <<ev[2], 0>>

----------------------------------------------------------------------------
\* Commands

NoCommands ==
  [despawnFood |-> {},      \* positions whose Food entities are despawned
   spawnFood |-> EmptyBag,  \* Food entities to spawn
   spawnListed |-> 0,       \* trailing entries of segments whose spawn is queued
   reset |-> FALSE]         \* spawn_snake queued a new SnakeHead

NoObs ==
  [moved |-> None, placed |-> None, reset |-> FALSE, ate |-> None, grew |-> None]

\* The listed entities that exist in the world.
LiveListed == SubSeq(segments, 1, Len(segments) - commands.spawnListed)

\* Query<&Position, With<SnakeSegment>>: the positions of the existing segments.
SegmentQuery ==
  Range(LiveListed) \cup {u.pos : u \in {v \in unlisted : v.state # "queued"}}

----------------------------------------------------------------------------
\* The scheduler

Systems == {"Input", "Movement", "Eating", "Growth", "GameOver", "FoodSpawner"}
TickSystems == {"Movement", "Eating", "Growth"}
Scheduled == IF tick THEN Systems ELSE Systems \ TickSystems

\* A slip: snake_eating is added without .after(SnakeMovement::Movement).
Before_EatingUnordered(s) ==
  CASE s = "Movement" -> {"Input"}
    [] s = "Growth" -> {"Eating"}
    [] s = "GameOver" -> {"Movement"}
    [] OTHER -> {}

Before(s) ==
  CASE s = "Movement" -> {"Input"}
    [] s = "Eating" -> {"Movement"}
    [] s = "Growth" -> {"Eating"}
    [] s = "GameOver" -> {"Movement"}
    [] OTHER -> {}

CanRun(s) ==
  /\ pc = "systems"
  /\ s \in Scheduled \ ran
  /\ (Before(s) \cap Scheduled) \subseteq ran

----------------------------------------------------------------------------
\* snake_movement_input

\* The key the else-if chain picks among those just pressed.
PressedKey(keys) ==
  IF "Left" \in keys THEN "Left"
  ELSE IF "Down" \in keys THEN "Down"
  ELSE IF "Up" \in keys THEN "Up"
  ELSE IF "Right" \in keys THEN "Right"
  ELSE NoKey

\* A slip in the capacity test: <= for <.
PushKeys_OffByOne(buf, keys) ==
  IF Len(buf) <= BufferCapacity /\ PressedKey(keys) # NoKey
  THEN Append(buf, PressedKey(keys))
  ELSE buf

PushKeys(buf, keys) ==
  IF Len(buf) < BufferCapacity /\ PressedKey(keys) # NoKey
  THEN Append(buf, PressedKey(keys))
  ELSE buf

snake_movement_input ==
  /\ CanRun("Input")
  /\ \E keys \in SUBSET Direction : inputs' = PushKeys(inputs, keys)
  /\ ran' = ran \cup {"Input"}
  /\ UNCHANGED <<segments, head, unlisted, food, last_tail_position,
                 game_over_events, growth_events, food_events, commands, tick,
                 pc, idle, new_position, obs, after_boundary>>

----------------------------------------------------------------------------
\* snake_movement

\* A slip: the applied direction also drops what is queued behind it.
RECURSIVE ConsumeInput_DiscardRest(_, _)
ConsumeInput_DiscardRest(direction, buf) ==
  IF buf = <<>> THEN [direction |-> direction, inputs |-> buf]
  ELSE IF opposite(Head(buf)) # direction
       THEN [direction |-> Head(buf), inputs |-> <<>>]
       ELSE ConsumeInput_DiscardRest(direction, Tail(buf))

\* A slip: the filter rejects the current heading instead of its opposite.
RECURSIVE ConsumeInput_RejectSame(_, _)
ConsumeInput_RejectSame(direction, buf) ==
  IF buf = <<>> THEN [direction |-> direction, inputs |-> buf]
  ELSE IF Head(buf) # direction
       THEN [direction |-> Head(buf), inputs |-> Tail(buf)]
       ELSE ConsumeInput_RejectSame(direction, Tail(buf))

\* The while-let loop of lines 171-176.
RECURSIVE ConsumeInput(_, _)
ConsumeInput(direction, buf) ==
  IF buf = <<>> THEN [direction |-> direction, inputs |-> buf]
  ELSE IF opposite(Head(buf)) # direction
       THEN [direction |-> Head(buf), inputs |-> Tail(buf)]
       ELSE ConsumeInput(direction, Tail(buf))

\* The match of lines 179-192.
Advance(pos, direction) ==
  CASE direction = "Left" -> Position(pos.x - 1, pos.y)
    [] direction = "Right" -> Position(pos.x + 1, pos.y)
    [] direction = "Up" -> Position(pos.x, pos.y + 1)
    [] direction = "Down" -> Position(pos.x, pos.y - 1)

\* A slip in the comparisons: the cells of the left and bottom edges count as
\* outside.
OutOfArena_EdgeIsOut(pos) ==
  pos.x <= 0 \/ pos.y <= 0 \/ pos.x >= ARENA_WIDTH \/ pos.y >= ARENA_HEIGHT

\* Lines 194-197.
OutOfArena(pos) ==
  pos.x < 0 \/ pos.y < 0 \/ pos.x >= ARENA_WIDTH \/ pos.y >= ARENA_HEIGHT

\* A slip: the cell the tail is about to leave is not checked.
SelfCollision_SkipTail(segment_positions, head_pos) ==
  head_pos \in Range(SubSeq(segment_positions, 1, Len(segment_positions) - 1))

\* Line 201: segment_positions.contains(&head_pos).
SelfCollision(segment_positions, head_pos) ==
  head_pos \in Range(segment_positions)

\* A slip: no snapshot, every segment takes the position its neighbour has
\* already been given, so the body collapses onto the head.
Shift_InPlace(segment_positions, head_pos) ==
  [i \in 1..Len(segment_positions) |-> head_pos]

\* Lines 205-210: segment i takes the snapshot position of segment i-1.
Shift(segment_positions, head_pos) ==
  <<head_pos>> \o SubSeq(segment_positions, 1, Len(segment_positions) - 1)

snake_movement ==
  /\ CanRun("Movement")
  /\ LET segment_positions == segments
         consumed == ConsumeInput(head.direction, inputs)
         head_pos == Advance(head.pos, consumed.direction)
         boundary == IF OutOfArena(head_pos) THEN 1 ELSE 0
         collision == IF SelfCollision(segment_positions, head_pos) THEN 1 ELSE 0
     IN /\ head' = [pos |-> head_pos, direction |-> consumed.direction]
        /\ inputs' = consumed.inputs
        /\ game_over_events' = Send(game_over_events, boundary + collision)
        /\ food_events' = Send(food_events, boundary + collision)
        /\ segments' = Shift(segment_positions, head_pos)
        /\ last_tail_position' = Some(segment_positions[Len(segment_positions)])
        /\ obs' = [obs EXCEPT !.moved = Some(
                     [pre |-> segment_positions,
                      heading |-> head.direction,
                      buffer |-> inputs,
                      target |-> head_pos,
                      game_over_sent |-> boundary + collision,
                      food_sent |-> boundary + collision,
                      collision |-> collision,
                      debt |-> after_boundary,
                      new_heading |-> head'.direction,
                      head_after |-> head'.pos,
                      post |-> segments'])]
        /\ after_boundary' = IF boundary = 1
                             THEN Some([resets |-> 0, spawns |-> 0, placements |-> 0])
                             ELSE None
  /\ ran' = ran \cup {"Movement"}
  /\ UNCHANGED <<unlisted, food, growth_events, commands, tick, pc, idle,
                 new_position>>

----------------------------------------------------------------------------
\* snake_eating

snake_eating ==
  /\ CanRun("Eating")
  /\ LET n == CopiesIn(head.pos, food)
     IN /\ growth_events' = Send(growth_events, n)
        /\ food_events' = Send(food_events, n)
        /\ commands' = IF n > 0
                       THEN [commands EXCEPT !.despawnFood = @ \cup {head.pos}]
                       ELSE commands
        /\ obs' = [obs EXCEPT !.ate = Some(
                     [head |-> head.pos,
                      on_food |-> head.pos \in BagToSet(food),
                      growth_sent |-> n,
                      food_sent |-> n,
                      despawns |-> head.pos \in commands'.despawnFood,
                      queues |-> commands' # commands])]
  /\ ran' = ran \cup {"Eating"}
  /\ UNCHANGED <<segments, head, unlisted, food, inputs, last_tail_position,
                 game_over_events, tick, pc, idle, new_position, after_boundary>>

----------------------------------------------------------------------------
\* snake_growth

snake_growth ==
  /\ CanRun("Growth")
  /\ IF Unread(growth_events) > 0
     THEN /\ segments' = Append(segments, Unwrap(last_tail_position))
          /\ commands' = [commands EXCEPT !.spawnListed = @ + 1]
          /\ obs' = [obs EXCEPT !.grew = Some(
                       [before |-> segments,
                        after |-> segments',
                        events |-> Unread(growth_events)])]
     ELSE UNCHANGED <<segments, commands, obs>>
  /\ growth_events' = NoEvents
  /\ ran' = ran \cup {"Growth"}
  /\ UNCHANGED <<head, unlisted, food, inputs, last_tail_position,
                 game_over_events, food_events, tick, pc, idle, new_position,
                 after_boundary>>

----------------------------------------------------------------------------
\* spawn_snake and game_over

\* A slip: spawn_snake lists the head alone.
spawn_snake_HeadOnly == <<Position(StartX, StartY)>>

\* The entities spawn_snake puts in SnakeSegments: the head, then one segment.
spawn_snake == <<Position(StartX, StartY), Position(StartX, StartTailY)>>

\* The listed entities whose spawn is still queued.
QueuedListed ==
  {segments[i] : i \in (Len(segments) - commands.spawnListed + 1)..Len(segments)}

game_over ==
  /\ CanRun("GameOver")
  /\ IF Unread(game_over_events) > 0
     THEN /\ unlisted' =
               {[pos |-> p, state |-> "doomed"] : p \in SegmentQuery}
               \cup {u \in unlisted : u.state = "queued"}
               \cup {[pos |-> p, state |-> "queued"] : p \in QueuedListed}
          /\ segments' = spawn_snake
          /\ commands' = [commands EXCEPT !.despawnFood = @ \cup BagToSet(food),
                                          !.spawnListed = 2,
                                          !.reset = TRUE]
          /\ inputs' = <<>>
          /\ obs' = [obs EXCEPT !.reset = TRUE]
     ELSE UNCHANGED <<unlisted, segments, commands, inputs, obs>>
  /\ game_over_events' = NoEvents
  /\ ran' = ran \cup {"GameOver"}
  /\ UNCHANGED <<head, food, last_tail_position, growth_events, food_events,
                 tick, pc, idle, new_position, after_boundary>>

----------------------------------------------------------------------------
\* food_spawner

\* The food bag without the entities at the despawned positions.
Despawned(bag, positions) ==
  [p \in {q \in BagToSet(bag) : q \notin positions} |-> bag[p]]

\* The outcome of the rejection-sampling loop of lines 320-337: a cell that no
\* existing segment is on.  With a segment on every cell the loop has no
\* outcome and food_spawner never returns (SpecSampler follows the loop pass
\* by pass).
FreeCells == Cells \ SegmentQuery

food_spawner ==
  /\ CanRun("FoodSpawner")
  /\ IF Unread(food_events) > 0
     THEN /\ \E accepted \in FreeCells :
               /\ commands' = [commands EXCEPT
                                 !.spawnFood = @ (+) SetToBag({accepted})]
               /\ obs' = [obs EXCEPT !.placed = Some(accepted)]
          /\ after_boundary' =
               IF after_boundary = None THEN None
               ELSE Some([Unwrap(after_boundary) EXCEPT !.placements = @ + 1])
     ELSE UNCHANGED <<commands, obs, after_boundary>>
  /\ food_events' = NoEvents
  /\ ran' = ran \cup {"FoodSpawner"}
  /\ UNCHANGED <<segments, head, unlisted, food, inputs, last_tail_position,
                 game_over_events, growth_events, tick, pc, idle, new_position>>

----------------------------------------------------------------------------
\* The stage

\* The end of the Update stage: every system's command queue is applied.
ApplyBuffers ==
  /\ pc = "systems"
  /\ ran = Scheduled
  /\ food' = Despawned(food, commands.despawnFood) (+) commands.spawnFood
  /\ unlisted' = {[pos |-> u.pos, state |-> "live"] :
                    u \in {v \in unlisted : v.state # "doomed"}}
  /\ head' = IF commands.reset
             THEN [pos |-> spawn_snake[1], direction |-> "Up"]
             ELSE head
  /\ after_boundary' =
       IF after_boundary = None THEN None
       ELSE Some([Unwrap(after_boundary) EXCEPT
                   !.resets = @ + (IF commands.reset THEN 1 ELSE 0),
                   !.spawns = @ + BagCardinality(commands.spawnFood)])
  /\ commands' = NoCommands
  /\ pc' = "applied"
  /\ UNCHANGED <<segments, inputs, last_tail_position, game_over_events,
                 growth_events, food_events, tick, ran, idle, new_position, obs>>

\* The start of the next frame: Events::update, and the FixedTimestep criterion.
BeginFrame ==
  /\ pc = "applied"
  /\ BagCardinality(food) <= MaxFood
  /\ Len(segments) <= MaxSegments
  /\ Cardinality(unlisted) <= MaxStale
  /\ \E t \in BOOLEAN :
       /\ t \/ idle < MaxIdleFrames
       /\ tick' = t
       /\ idle' = IF t THEN 0 ELSE idle + 1
  /\ game_over_events' = UpdateEvents(game_over_events)
  /\ growth_events' = UpdateEvents(growth_events)
  /\ food_events' = UpdateEvents(food_events)
  /\ ran' = {}
  /\ obs' = NoObs
  /\ pc' = "systems"
  /\ UNCHANGED <<segments, head, unlisted, food, inputs, last_tail_position,
                 commands, new_position, after_boundary>>

\* The state after the startup systems (spawn_snake, init_food, init_inputs).
Init ==
  /\ segments = spawn_snake
  /\ head = [pos |-> spawn_snake[1], direction |-> "Up"]
  /\ unlisted = {}
  /\ \E p \in Cells : food = SetToBag({p})
  /\ inputs = <<>>
  /\ last_tail_position = None
  /\ game_over_events = NoEvents
  /\ growth_events = NoEvents
  /\ food_events = NoEvents
  /\ commands = NoCommands
  /\ tick = FALSE
  /\ ran = {}
  /\ pc = "applied"
  /\ idle = 0
  /\ new_position = None
  /\ obs = NoObs
  /\ after_boundary = None

Next ==
  \/ BeginFrame
  \/ snake_movement_input
  \/ snake_movement
  \/ snake_eating
  \/ snake_growth
  \/ game_over
  \/ food_spawner
  \/ ApplyBuffers

Spec == Init /\ [][Next]_vars

----------------------------------------------------------------------------
\* The InputBuffer on its own: every heading and every buffer content, under
\* any interleaving of input collection, consumption by a movement step and
\* the clear of a reset.

BufferContents == UNION {[1..n -> Direction] : n \in 0..BufferCapacity}

InputFrame == <<segments, unlisted, food, last_tail_position, game_over_events,
                growth_events, food_events, commands, tick, ran, pc, idle,
                new_position, after_boundary>>

\* snake_movement_input, lines 216-228.
InputCollection ==
  /\ \E keys \in SUBSET Direction :
       /\ inputs' = PushKeys(inputs, keys)
       /\ obs' = [op |-> "press", keys |-> keys, heading |-> head.direction,
                  before |-> inputs]
  /\ UNCHANGED head
  /\ UNCHANGED InputFrame

\* snake_movement, lines 170-177.
InputConsumption ==
  /\ LET consumed == ConsumeInput(head.direction, inputs)
     IN /\ head' = [head EXCEPT !.direction = consumed.direction]
        /\ inputs' = consumed.inputs
  /\ obs' = [op |-> "consume", keys |-> {}, heading |-> head.direction,
             before |-> inputs]
  /\ UNCHANGED InputFrame

\* game_over, lines 244-246.
InputClear ==
  /\ inputs' = <<>>
  /\ obs' = [op |-> "clear", keys |-> {}, heading |-> head.direction,
             before |-> inputs]
  /\ UNCHANGED head
  /\ UNCHANGED InputFrame

InitInput ==
  /\ segments = spawn_snake
  /\ \E d \in Direction : head = [pos |-> spawn_snake[1], direction |-> d]
  /\ unlisted = {}
  /\ food = EmptyBag
  /\ inputs \in BufferContents
  /\ last_tail_position = None
  /\ game_over_events = NoEvents
  /\ growth_events = NoEvents
  /\ food_events = NoEvents
  /\ commands = NoCommands
  /\ tick = FALSE
  /\ ran = {}
  /\ pc = "applied"
  /\ idle = 0
  /\ new_position = None
  /\ obs = [op |-> "init", keys |-> {}, heading |-> head.direction,
            before |-> inputs]
  /\ after_boundary = None

NextInput ==
  \/ InputCollection
  \/ InputConsumption
  \/ InputClear

SpecInput == InitInput /\ [][NextInput]_vars

----------------------------------------------------------------------------
\* The rejection-sampling loop of food_spawner on its own, one action per pass
\* of the loop, for a snake that lies along the rows of the arena and covers
\* from 2 cells up to every cell.  A FoodEvent of the previous frame is unread.

\* The cells of the arena row by row, every other row right to left.
SnakePath ==
  [k \in 1..(ARENA_WIDTH * ARENA_HEIGHT) |->
     LET y == (k - 1) \div ARENA_WIDTH
         c == (k - 1) % ARENA_WIDTH
     IN Position(IF y % 2 = 0 THEN c ELSE ARENA_WIDTH - 1 - c, y)]

SamplerFrame == <<segments, head, unlisted, food, inputs, last_tail_position,
                  game_over_events, growth_events, tick, ran, pc, idle, obs,
                  after_boundary>>

\* Lines 312-318: the event is read and the first candidate is drawn.
SamplerEnter ==
  /\ new_position = None
  /\ Unread(food_events) > 0
  /\ food_events' = NoEvents
  /\ \E drawn \in Cells : new_position' = Some(drawn)
  /\ UNCHANGED commands
  /\ UNCHANGED SamplerFrame

\* Lines 321-336, a pass that finds the candidate on a segment: the candidate
\* is drawn again.
SamplerRetry(drawn) ==
  /\ new_position # None
  /\ Unwrap(new_position) \in SegmentQuery
  /\ new_position' = Some(drawn)
  /\ UNCHANGED <<food_events, commands>>
  /\ UNCHANGED SamplerFrame

\* Lines 321-329 and 339-349, a pass that finds the candidate on no segment:
\* the loop ends and the food's spawn is queued.
SamplerPlace ==
  /\ new_position # None
  /\ Unwrap(new_position) \notin SegmentQuery
  /\ commands' = [commands EXCEPT
                    !.spawnFood = @ (+) SetToBag({Unwrap(new_position)})]
  /\ new_position' = None
  /\ UNCHANGED food_events
  /\ UNCHANGED SamplerFrame

InitSampler ==
  /\ \E n \in 2..(ARENA_WIDTH * ARENA_HEIGHT) : segments = SubSeq(SnakePath, 1, n)
  /\ head = [pos |-> segments[1], direction |-> "Left"]
  /\ unlisted = {}
  /\ food = EmptyBag
  /\ inputs = <<>>
  /\ last_tail_position = Some(segments[Len(segments)])
  /\ game_over_events = NoEvents
  /\ growth_events = NoEvents
  /\ food_events = <<1, 0>>
  /\ commands = NoCommands
  /\ tick = FALSE
  /\ ran = {}
  /\ pc = "systems"
  /\ idle = 0
  /\ new_position = None
  /\ obs = NoObs
  /\ after_boundary = None

NextSampler ==
  \/ SamplerEnter
  \/ \E drawn \in Cells : SamplerRetry(drawn)
  \/ SamplerPlace

\* The loop keeps running, and while it runs a cell that no segment is on is
\* drawn sooner or later.
SpecSampler ==
  /\ InitSampler
  /\ [][NextSampler]_vars
  /\ WF_vars(SamplerEnter)
  /\ WF_vars(SamplerPlace)
  /\ SF_vars(\E drawn \in FreeCells : SamplerRetry(drawn))

----------------------------------------------------------------------------
\* The claims

Moved == obs.moved # None
move == Unwrap(obs.moved)
Min(a, b) == IF a < b THEN a ELSE b

\* C1: when food_spawner has placed a food in a frame, then once the frame's
\* commands are applied the food is on no segment of the snake (SnakeSegments).
C1_FoodOffSnake ==
  (pc = "applied" /\ obs.placed # None) => Unwrap(obs.placed) \notin Range(segments)

\* C2: once a reset is applied, SnakeSegments holds exactly the two segments of
\* spawn_snake, the head is at (3,3) heading Up, the InputBuffer is empty and a
\* FoodEvent was sent in the frame.
C2_ResetCanonical ==
  (pc = "applied" /\ obs.reset) =>
    /\ Len(segments) = 2
    /\ segments = <<Position(3, 3), Position(3, 2)>>
    /\ head = [pos |-> Position(3, 3), direction |-> "Up"]
    /\ inputs = <<>>
    /\ Moved /\ move.food_sent >= 1

\* The reference consumption of C3: scan from the front to the first entry that
\* is neither the heading nor its opposite; apply it and drop the scanned ones.
RECURSIVE pop_matching(_, _)
pop_matching(current_heading, buf) ==
  IF buf = <<>> THEN [direction |-> current_heading, inputs |-> <<>>]
  ELSE IF Head(buf) # current_heading /\ Head(buf) # opposite(current_heading)
       THEN [direction |-> Head(buf), inputs |-> Tail(buf)]
       ELSE pop_matching(current_heading, Tail(buf))

\* C3: the consumption of one movement step equals pop_matching, for every
\* heading and every buffer content.
C3_ConsumeIsPopMatching ==
  obs.op = "consume" =>
    [direction |-> head.direction, inputs |-> inputs]
      = pop_matching(obs.heading, obs.before)

\* C4 as claimed: a step that turns the head (applies a direction other than
\* the heading and its opposite) leaves the InputBuffer empty.
C4_RemainderDiscarded ==
  (obs.op = "consume" /\ head.direction # obs.heading) => inputs = <<>>

\* C4 as amended: a step that turns the head sets the heading to the first
\* buffered direction that is not the opposite of the heading, removes the
\* entries up to and including it, and keeps the entries behind it in order.
C4_RemainderKept ==
  (obs.op = "consume" /\ head.direction # obs.heading) =>
    \E i \in 1..Len(obs.before) :
      /\ \A j \in 1..(i - 1) : obs.before[j] = opposite(obs.heading)
      /\ obs.before[i] = head.direction
      /\ head.direction \notin {obs.heading, opposite(obs.heading)}
      /\ inputs = SubSeq(obs.before, i + 1, Len(obs.before))

\* A turn with a direction still queued behind it.
C4_Witness ==
  obs.op = "consume" /\ head.direction # obs.heading /\ inputs # <<>>

\* C5: a movement step never reverses the heading, and a buffer that holds only
\* the heading and its opposite leaves the heading as it was.
C5_NoReversal ==
  obs.op = "consume" =>
    /\ head.direction # opposite(obs.heading)
    /\ (Range(obs.before) \subseteq {obs.heading, opposite(obs.heading)}
          => head.direction = obs.heading)

\* A step whose first buffered direction is the opposite of the heading.
C5_Witness ==
  /\ obs.op = "consume"
  /\ obs.before # <<>>
  /\ Head(obs.before) = opposite(obs.heading)

\* C6: the InputBuffer never holds more than 3 directions; the key press a
\* frame offers is dropped when the buffer holds 3 and appended at the back
\* otherwise.
C6_BufferBounded ==
  /\ Len(inputs) <= 3
  /\ obs.op = "press" =>
       IF Len(obs.before) = 3 \/ obs.keys = {}
       THEN inputs = obs.before
       ELSE \E k \in obs.keys : inputs = Append(obs.before, k)

\* A key pressed while the buffer holds 3 directions.
C6_Witness ==
  obs.op = "press" /\ obs.keys # {} /\ Len(obs.before) = 3

\* C7: every key pressed in a frame is offered to the InputBuffer: the buffer
\* grows by the number of keys pressed, up to its capacity of 3.
C7_EachPressOffered ==
  obs.op = "press" =>
    /\ Len(inputs) = Min(3, Len(obs.before) + Cardinality(obs.keys))
    /\ \A k \in obs.keys :
         Len(obs.before) + Cardinality(obs.keys) <= 3 => k \in Range(inputs)

\* C8: a tick whose new head is outside the arena sends GameOverEvent and
\* FoodEvent, and when the next tick begins exactly one reset and exactly one
\* food spawn have been applied since.
C8_BoundaryHandledOnce ==
  Moved =>
    /\ (move.target.x < 0 \/ move.target.x >= ARENA_WIDTH
          \/ move.target.y < 0 \/ move.target.y >= ARENA_HEIGHT)
         => (move.game_over_sent >= 1 /\ move.food_sent >= 1)
    /\ move.debt # None =>
         (Unwrap(move.debt).resets = 1 /\ Unwrap(move.debt).spawns = 1)

\* C9: a tick whose new head is on the pre-move position of a segment sends
\* GameOverEvent and FoodEvent.
C9_SelfCollisionEmits ==
  (Moved /\ move.target \in Range(move.pre)) =>
    (move.game_over_sent >= 1 /\ move.food_sent >= 1)

\* The head moves onto the cell the tail is about to leave.
C9_Witness ==
  /\ Moved
  /\ Cardinality(Range(move.pre)) = Len(move.pre)
  /\ move.target = move.pre[Len(move.pre)]

\* C10: a tick of a snake of exactly 2 segments never moves the head onto a
\* pre-move segment position, so its self-collision check sends nothing.
C10_LengthTwoNeverCollides ==
  (Moved /\ Len(move.pre) = 2) =>
    (move.target \notin Range(move.pre) /\ move.collision = 0)

\* A 2-segment snake moves with its own heading in the buffer.
C10_Witness ==
  /\ Moved /\ Len(move.pre) = 2
  /\ move.buffer # <<>> /\ Head(move.buffer) = move.heading

\* C11: the Growth phase of a tick leaves the snake that the movement step of
\* the tick moved, with exactly one more segment, appended last, at the
\* pre-move position of its last segment.
C11_GrowthAppendsTail ==
  obs.grew # None =>
    /\ Moved
    /\ Len(Unwrap(obs.grew).after) = Len(move.pre) + 1
    /\ Unwrap(obs.grew).after =
         Append(Shift(move.pre, move.target), move.pre[Len(move.pre)])

\* The unit vector of a heading, as C12 states it.
UnitVector(d) ==
  CASE d = "Up" -> [x |-> 0, y |-> 1]
    [] d = "Down" -> [x |-> 0, y |-> -1]
    [] d = "Left" -> [x |-> -1, y |-> 0]
    [] d = "Right" -> [x |-> 1, y |-> 0]

\* C12: a movement step puts the head at its old position plus the unit vector
\* of the heading the step ends with, and every segment i >= 1 at the pre-move
\* position of segment i-1; from (3,3),(3,2) heading Up with no input the
\* snake is at (3,4),(3,3).
C12_StepMovesSnake ==
  Moved =>
    /\ Len(move.post) = Len(move.pre)
    /\ move.head_after = move.post[1]
    /\ move.post[1].x = move.pre[1].x + UnitVector(move.new_heading).x
    /\ move.post[1].y = move.pre[1].y + UnitVector(move.new_heading).y
    /\ \A i \in 2..Len(move.pre) : move.post[i] = move.pre[i - 1]
    /\ (/\ move.pre = <<Position(3, 3), Position(3, 2)>>
        /\ move.heading = "Up"
        /\ move.buffer = <<>>)
         => move.post = <<Position(3, 4), Position(3, 3)>>

\* A snake of 3 or more segments turns.
C12_Witness ==
  Moved /\ Len(move.pre) >= 3 /\ move.new_heading # move.heading

\* C13: snake_eating runs after snake_movement and compares the foods with the
\* post-move head.  On a food it queues the food's removal and sends
\* GrowthEvent and FoodEvent, and the Growth phase of the same tick handles
\* the GrowthEvent; off the food it queues nothing and sends nothing.
C13_EatingAfterMovement ==
  obs.ate # None =>
    /\ Moved
    /\ Unwrap(obs.ate).head = move.head_after
    /\ IF Unwrap(obs.ate).on_food
       THEN /\ Unwrap(obs.ate).despawns
            /\ Unwrap(obs.ate).growth_sent >= 1
            /\ Unwrap(obs.ate).food_sent >= 1
            /\ pc = "applied" =>
                 (obs.grew # None /\ Unwrap(obs.grew).events >= 1)
       ELSE /\ ~Unwrap(obs.ate).queues
            /\ Unwrap(obs.ate).growth_sent = 0
            /\ Unwrap(obs.ate).food_sent = 0
            /\ obs.grew = None

\* A tick in which the head landed on the food has been applied.
C13_Witness ==
  /\ pc = "applied"
  /\ obs.ate # None
  /\ Unwrap(obs.ate).on_food

\* C18: the world holds at most one food, and it holds none only while a
\* FoodEvent is unread or the food that food_spawner placed is not yet spawned.
C18_SingleFood ==
  /\ BagCardinality(food) <= 1
  /\ (food = EmptyBag /\ commands.spawnFood = EmptyBag) => Unread(food_events) > 0

\* C14: whenever food_spawner handles a FoodEvent, its loop ends and the food
\* is placed, also when the snake covers every cell of the arena.
C14_SamplerTerminates ==
  [](new_position # None => <>(new_position = None))

\* C15: once a reset is applied, every SnakeSegment entity that exists is in
\* SnakeSegments: no segment exists outside the list.
C15_NoStaleSegments ==
  (pc = "applied" /\ obs.reset) => unlisted = {}

\* C16: the snake has at least 2 segments in every state.
C16_AtLeastTwoSegments ==
  Len(segments) >= 2

\* A frame that both appended a segment and reset the snake has been applied.
C16_Witness ==
  pc = "applied" /\ obs.reset /\ obs.grew # None

\* C17: at the start of every tick no two segments of the snake are on the
\* same cell.
C17_NoOverlapAtTick ==
  Moved => \A i, j \in 1..Len(move.pre) : i # j => move.pre[i] # move.pre[j]

\* The tick systems have run, and the new head is inside the arena, on no
\* pre-move segment position and on no food.
QuietTick ==
  /\ pc = "systems"
  /\ TickSystems \subseteq ran
  /\ Moved
  /\ move.target.x >= 0 /\ move.target.x < ARENA_WIDTH
  /\ move.target.y >= 0 /\ move.target.y < ARENA_HEIGHT
  /\ \A i \in 1..Len(move.pre) : move.target # move.pre[i]
  /\ move.target \notin BagToSet(food)

\* C19: a quiet tick sends no GameOverEvent, GrowthEvent or FoodEvent, removes
\* no food, appends no segment and resets nothing.
C19_QuietTickChangesNothing ==
  QuietTick =>
    /\ move.game_over_sent = 0
    /\ move.food_sent = 0
    /\ Unwrap(obs.ate).growth_sent = 0
    /\ Unwrap(obs.ate).food_sent = 0
    /\ ~Unwrap(obs.ate).queues
    /\ Unread(game_over_events) = 0
    /\ Unread(growth_events) = 0
    /\ obs.grew = None
    /\ commands.despawnFood = {}
    /\ commands.spawnListed = 0
    /\ ~obs.reset /\ ~commands.reset
    /\ Len(segments) = Len(move.pre)
    /\ segments = move.post

\* A quiet tick of a snake of 3 segments, with every system of the frame run.
C19_Witness ==
  QuietTick /\ ran = Scheduled /\ Len(move.pre) = 3

\* C20: at the start of every tick each segment i >= 1 is at Manhattan
\* distance 1 from segment i-1.
C20_ContiguousAtTick ==
  Moved =>
    \A i \in 2..Len(move.pre) :
      LET dx == move.pre[i].x - move.pre[i - 1].x
          dy == move.pre[i].y - move.pre[i - 1].y
      IN (IF dx < 0 THEN -dx ELSE dx) + (IF dy < 0 THEN -dy ELSE dy) = 1

====
